---- MODULE Spec2Model ----
(***************************************************************************)
(* Model of backend/app.py: a FastAPI license backend over Firestore.      *)
(*                                                                         *)
(* The three Firestore collections (sellers, applications, users) are the  *)
(* shared state.  A request handler is a process; every Firestore call of  *)
(* a handler (get, stream, add, set, update, delete) is one atomic step,   *)
(* so handlers of different requests interleave between their store calls  *)
(* (sync handlers run on the thread pool, and the service may run several  *)
(* workers against the same Firestore database).                           *)
(*                                                                         *)
(* Abstractions: uuid4 / token_hex / Firestore auto ids are fresh values   *)
(* taken from counters; an instant is an integer number of days; the       *)
(* created_at server timestamps, which no handler reads, are left out.     *)
(* The expiry extension has a request model (UserExtendRequest) but no     *)
(* handler in app.py; extend_user follows the design document.             *)
(*                                                                         *)
(* Spec composes every handler on two workers from the empty store.  The   *)
(* properties are checked on its parts: CredSpec (one worker: creation,    *)
(* login, deletion, extension, clock), RaceSpec and CreateSpec (two        *)
(* workers on the credentials), DeleteAppSpec and DeleteSellerSpec (two    *)
(* workers around a cascade), LoginSpec (two workers logging in to two     *)
(* applications), WebhookSpec (one worker: webhook configuration, login    *)
(* and the notification task) and SyncSpec (two workers signing in), each  *)
(* started from a store that Spec reaches.                                 *)
(***************************************************************************)
EXTENDS Integers, Sequences, FiniteSets, TLC

(* ------------------------------ bounds -------------------------------- *)
MaxClock  == 1      \* the clock runs over 0..MaxClock
MaxUsers  == 2      \* number of user documents ever added
MaxApps   == 2      \* number of application documents ever added
MaxOwners == 2      \* number of owner ids ever generated

(* --------------------------- input domains ---------------------------- *)
Procs        == {"p1", "p2"}
FirebaseUids == {"uid1"}
Emails       == {"a@x"}
AppNames     == {"App"}
Usernames    == {"alice"}
Passwords    == {"pw1", "pw2"}     \* passwords a login presents
NewPasswords == {"pw1"}            \* passwords a credential is created with
HWIDs        == {"H1", "H2"}
DaysIn       == {-1, 0, 1}

None     == "None"
NoDoc    == [id |-> 0]
NoReq    == [op |-> "none"]
NoRes    == [kind |-> "none"]
NoConfig == [none |-> TRUE]

(* ------------------------------- time --------------------------------- *)
\* datetime(9999, 12, 31)
LIFETIME == 9999

\* datetime.isoformat(): the stored text of an instant
isoformat(t) == <<"iso", t>>

\* datetime.strptime(s, "%Y-%m-%dT%H:%M"): the instant of a datetime-local text
strptime(s) == s[2]

\* the instant an ISO text denotes
Instant(s) == s[2]

\* EndUserCreateRequest.expire_str: absent (None), empty, or a datetime-local text
NoText     == <<"None", 0>>
EmptyText  == <<"empty", 0>>
ExpireStrs == {NoText, EmptyText, <<"local", 0>>}

\* Python truth value of an optional text: None and "" are false
Truthy(s) == s[1] \notin {"None", "empty"}

VARIABLES
    sellers,        \* collection 'sellers': firebase_uid -> document
    applications,   \* collection 'applications': doc id -> document
    users,          \* collection 'users': doc id -> document
    now,            \* datetime.utcnow()
    nextOwner,      \* owner ids generated so far
    nextApp,        \* application ids generated so far
    nextUser,       \* user document ids generated so far
    pc,             \* position of each request handler
    req,            \* the request a handler is serving
    res,            \* the response of the last finished request
    app_data,       \* handler local: the application snapshot in hand
    user_doc,       \* handler local: the user snapshot read by user_login
    seller_ref,     \* handler local: the seller document found
    apps_it,        \* handler local: application snapshots a stream still yields
    users_it,       \* handler local: user document ids a stream still yields
    bg_tasks        \* the BackgroundTasks of the request

vars == <<sellers, applications, users, now, nextOwner, nextApp, nextUser,
          pc, req, res, app_data, user_doc, seller_ref, apps_it, users_it, bg_tasks>>

store  == <<sellers, applications, users>>
ids    == <<nextOwner, nextApp, nextUser>>
locals == <<app_data, user_doc, seller_ref, apps_it, users_it>>

(* ------------------------- store primitives --------------------------- *)
\* DocumentReference.set() / CollectionReference.add()
Put(coll, id, doc) == [d \in DOMAIN coll \cup {id} |-> IF d = id THEN doc ELSE coll[d]]

\* DocumentReference.delete(): deleting a missing document is a no-op
Remove(coll, id) == [d \in DOMAIN coll \ {id} |-> coll[d]]

\* a DocumentSnapshot: the id and the fields of a document when it was read
Snap(coll, id) == [id |-> id, data |-> coll[id]]

AppsWhereAppid(appid) == {d \in DOMAIN applications : applications[d].appid = appid}

AppsWhereOwner(ownerid) == {d \in DOMAIN applications : applications[d].ownerid = ownerid}

AppsWhereOwnerSecret(ownerid, secret) ==
    {d \in DOMAIN applications : /\ applications[d].ownerid = ownerid
                                 /\ applications[d].app_secret = secret}

UsersWhereAppid(appid) == {d \in DOMAIN users : users[d].appid = appid}

\* mutant: the duplicate query filters on the username of another application
UsersWhereAppUser_otherApp(appid, username) ==
    {d \in DOMAIN users : users[d].appid # appid /\ users[d].username = username}

\* mutant: the credential query does not filter on the application
UsersWhereAppUser_anyApp(appid, username) ==
    {d \in DOMAIN users : users[d].username = username}

UsersWhereAppUser(appid, username) ==
    {d \in DOMAIN users : users[d].appid = appid /\ users[d].username = username}

SellersWhereOwner(ownerid) == {d \in DOMAIN sellers : sellers[d].ownerid = ownerid}

(* ---------------------------- responses ------------------------------- *)
Ok == [kind |-> "json", status |-> "success"]

HttpError(code, detail) == [kind |-> "error", code |-> code, detail |-> detail]

LoginFail(msg) == [kind |-> "json", success |-> FALSE, message |-> msg]

\* mutant: a wrong password is told apart from an unknown username
WrongPassword_leak == LoginFail("Wrong password.")

\* line 239: no credential with that username in the application
UserNotFound == LoginFail("Invalid credentials.")

\* line 243: the password differs
WrongPassword == LoginFail("Invalid credentials.")

LoginOk(expires) ==
    [kind |-> "json", success |-> TRUE, message |-> "Login successful.", expires |-> expires]

(* ------------------------- handler plumbing --------------------------- *)
Idle(p) == pc[p] \in {"idle", "done"}

At(label) == {q \in Procs : pc[q] = label}

\* a request arrives at an idle worker: fresh request, fresh BackgroundTasks
Begin(p, r) ==
    /\ Idle(p)
    /\ req' = [req EXCEPT ![p] = r]
    /\ bg_tasks' = [bg_tasks EXCEPT ![p] = << >>]

\* the handler's locals at its first step
Locals(p, a, u, s, ai, ui) ==
    /\ app_data' = [app_data EXCEPT ![p] = a]
    /\ user_doc' = [user_doc EXCEPT ![p] = u]
    /\ seller_ref' = [seller_ref EXCEPT ![p] = s]
    /\ apps_it' = [apps_it EXCEPT ![p] = ai]
    /\ users_it' = [users_it EXCEPT ![p] = ui]

NoLocals(p) == Locals(p, NoDoc, NoDoc, None, {}, {})

\* the handler moves on to its next store call
Goto(p, label) ==
    /\ pc' = [pc EXCEPT ![p] = label]
    /\ res' = [res EXCEPT ![p] = NoRes]

\* the handler returns r (or raises it)
Finish(p, r) ==
    /\ pc' = [pc EXCEPT ![p] = "done"]
    /\ res' = [res EXCEPT ![p] = r]

Init ==
    /\ sellers = << >>
    /\ applications = << >>
    /\ users = << >>
    /\ now = 0
    /\ nextOwner = 0
    /\ nextApp = 0
    /\ nextUser = 0
    /\ pc = [p \in Procs |-> "idle"]
    /\ req = [p \in Procs |-> NoReq]
    /\ res = [p \in Procs |-> NoRes]
    /\ app_data = [p \in Procs |-> NoDoc]
    /\ user_doc = [p \in Procs |-> NoDoc]
    /\ seller_ref = [p \in Procs |-> None]
    /\ apps_it = [p \in Procs |-> {}]
    /\ users_it = [p \in Procs |-> {}]
    /\ bg_tasks = [p \in Procs |-> << >>]

\* the wall clock advances
Tick ==
    /\ now < MaxClock
    /\ now' = now + 1
    /\ UNCHANGED <<store, ids, pc, req, res, locals, bg_tasks>>

(* ----------------------------- sync_seller ---------------------------- *)
SyncOk(ownerid) == [kind |-> "json", status |-> "success", ownerid |-> ownerid]

\* lines 109-115: doc_ref.get(); an existing seller is answered from the document
sync_get(p) ==
    \E uid \in FirebaseUids, email \in Emails :
        /\ Begin(p, [op |-> "sync_seller", firebase_uid |-> uid, email |-> email])
        /\ NoLocals(p)
        /\ IF uid \in DOMAIN sellers
              THEN Finish(p, SyncOk(sellers[uid].ownerid))
              ELSE /\ nextOwner + Cardinality(At("sync_set")) < MaxOwners
                   /\ Goto(p, "sync_set")
        /\ UNCHANGED <<store, ids, now>>

\* lines 117-125: a new owner id is generated and the document is set
sync_set(p) ==
    /\ pc[p] = "sync_set"
    /\ nextOwner' = nextOwner + 1
    /\ sellers' = Put(sellers, req[p].firebase_uid,
                      [email |-> req[p].email, ownerid |-> nextOwner'])
    /\ Finish(p, SyncOk(nextOwner'))
    /\ UNCHANGED <<applications, users, nextApp, nextUser, now, req, locals, bg_tasks>>

(* ----------------------------- create_app ----------------------------- *)
\* lines 128-141: the ownerid is not checked against the sellers
create_app(p) ==
    \E ownerid \in 0..nextOwner, name \in AppNames :
        /\ Begin(p, [op |-> "create_app", ownerid |-> ownerid, app_name |-> name])
        /\ nextApp < MaxApps
        /\ nextApp' = nextApp + 1
        /\ applications' = Put(applications, nextApp',
                               [appid |-> nextApp', app_secret |-> nextApp',
                                name |-> name, ownerid |-> ownerid,
                                webhook_config |-> NoConfig])
        /\ NoLocals(p)
        /\ Finish(p, [kind |-> "json", status |-> "success",
                      appid |-> nextApp', app_secret |-> nextApp'])
        /\ UNCHANGED <<sellers, users, nextOwner, nextUser, now>>

(* --------------------------- create_end_user -------------------------- *)
\* mutant: days = 0 is not special, the expiry is utcnow + 0
Expires_noLifetime(expire_str, days, utcnow) ==
    IF Truthy(expire_str) THEN strptime(expire_str) ELSE utcnow + days

\* mutant: days = 0 is tested before the explicit expiry text
Expires_daysFirst(expire_str, days, utcnow) ==
    IF days = 0 THEN LIFETIME
    ELSE IF Truthy(expire_str) THEN strptime(expire_str)
    ELSE utcnow + days

\* lines 191-197: the expiry of a new credential
Expires(expire_str, days, utcnow) ==
    IF Truthy(expire_str) THEN strptime(expire_str)
    ELSE IF days = 0 THEN LIFETIME
    ELSE utcnow + days

\* lines 199-205: the document that is added
NewUser(r, utcnow) ==
    [appid |-> r.appid, username |-> r.username, password |-> r.password,
     expires_at |-> isoformat(Expires(r.expire_str, r.days, utcnow)), hwid |-> None]

\* lines 186-189: the duplicate query; the appid is not checked against the applications
create_check(p) ==
    \E appid \in 0..nextApp, username \in Usernames, password \in NewPasswords,
       days \in DaysIn, expire_str \in ExpireStrs :
        /\ Begin(p, [op |-> "create_end_user", appid |-> appid, username |-> username,
                     password |-> password, days |-> days, expire_str |-> expire_str])
        /\ NoLocals(p)
        /\ IF UsersWhereAppUser(appid, username) # {}
              THEN Finish(p, HttpError(400, "Username exists"))
              ELSE /\ nextUser + Cardinality(At("create_add")) < MaxUsers
                   /\ Goto(p, "create_add")
        /\ UNCHANGED <<store, ids, now>>

\* lines 191-207: the expiry is computed and the document is added
create_add(p) ==
    /\ pc[p] = "create_add"
    /\ nextUser' = nextUser + 1
    /\ users' = Put(users, nextUser', NewUser(req[p], now))
    /\ Finish(p, Ok)
    /\ UNCHANGED <<sellers, applications, nextOwner, nextApp, now, req, locals, bg_tasks>>

(* ------------------------ list_apps, list_users ----------------------- *)
\* lines 144-161
list_apps(p) ==
    \E ownerid \in 0..nextOwner :
        /\ Begin(p, [op |-> "list_apps", ownerid |-> ownerid])
        /\ NoLocals(p)
        /\ Finish(p, [kind |-> "json", status |-> "success",
                      apps |-> {[name |-> applications[d].name,
                                 appid |-> applications[d].appid,
                                 app_secret |-> applications[d].app_secret,
                                 webhook_config |-> applications[d].webhook_config]
                                : d \in AppsWhereOwner(ownerid)}])
        /\ UNCHANGED <<store, ids, now>>

\* lines 210-214
list_users(p) ==
    \E appid \in 0..nextApp :
        /\ Begin(p, [op |-> "list_users", appid |-> appid])
        /\ NoLocals(p)
        /\ Finish(p, [kind |-> "json", status |-> "success",
                      users |-> {Snap(users, d) : d \in UsersWhereAppid(appid)}])
        /\ UNCHANGED <<store, ids, now>>

(* ----------------------------- delete_user ---------------------------- *)
\* lines 217-219
delete_user(p) ==
    \E user_id \in 0..nextUser :
        /\ Begin(p, [op |-> "delete_user", user_id |-> user_id])
        /\ NoLocals(p)
        /\ users' = Remove(users, user_id)
        /\ Finish(p, Ok)
        /\ UNCHANGED <<sellers, applications, ids, now>>

(* ----------------------------- user_login ----------------------------- *)
\* mutant: the update leaves the stored HWID as it was
UpdateHwid_lost(doc, hwid) == doc

\* mutant: the first login also restarts the subscription at the login time
UpdateHwid_activate(doc, hwid) == [doc EXCEPT !.hwid = hwid, !.expires_at = isoformat(now)]

\* line 247: DocumentReference.update({'hwid': data.hwid})
UpdateHwid(doc, hwid) == [doc EXCEPT !.hwid = hwid]

\* mutant: the trigger does not look at the enabled flag
WebhookOn_ignoresEnabled(app) ==
    /\ app.webhook_config # NoConfig
    /\ app.webhook_config.url # ""

\* line 254
WebhookOn(app) ==
    /\ app.webhook_config # NoConfig
    /\ app.webhook_config.enabled
    /\ app.webhook_config.url # ""

\* line 258: the task handed to BackgroundTasks
WebhookTask(app, u_data) ==
    [fn |-> "send_discord_webhook", url |-> app.webhook_config.url, user_data |-> u_data,
     config |-> app.webhook_config, app_name |-> app.name, ip_address |-> "client"]

\* lines 252-261: the webhook trigger and the success response
LoginSuccess(p, app, u_data) ==
    /\ bg_tasks' = [bg_tasks EXCEPT ![p] =
                       IF WebhookOn(app) THEN <<WebhookTask(app, u_data)>> ELSE << >>]
    /\ Finish(p, LoginOk(u_data.expires_at))

\* lines 226-232: the application is looked up by (ownerid, app_secret)
login_find_app(p) ==
    \E ownerid \in 0..nextOwner, app_secret \in 0..nextApp, username \in Usernames,
       password \in Passwords, hwid \in HWIDs :
        /\ Begin(p, [op |-> "user_login", ownerid |-> ownerid, app_secret |-> app_secret,
                     username |-> username, password |-> password, hwid |-> hwid])
        /\ LET found == AppsWhereOwnerSecret(ownerid, app_secret) IN
             IF found = {}
                THEN /\ NoLocals(p)
                     /\ Finish(p, LoginFail("Invalid application details."))
                ELSE \E d \in found :
                       /\ Locals(p, Snap(applications, d), NoDoc, None, {}, {})
                       /\ Goto(p, "login_find_user")
        /\ UNCHANGED <<store, ids, now>>

\* lines 235-250 (and 252-261 when the HWID matches): the credential is looked up,
\* the password and the HWID are compared with the snapshot
login_find_user(p) ==
    /\ pc[p] = "login_find_user"
    /\ LET app   == app_data[p].data
           found == UsersWhereAppUser(app.appid, req[p].username) IN
         IF found = {}
            THEN /\ Finish(p, UserNotFound)
                 /\ UNCHANGED <<user_doc, bg_tasks>>
            ELSE \E d \in found :
                   LET u_data == users[d] IN
                     /\ user_doc' = [user_doc EXCEPT ![p] = Snap(users, d)]
                     /\ IF u_data.password # req[p].password
                           THEN /\ Finish(p, WrongPassword)
                                /\ UNCHANGED bg_tasks
                        ELSE IF u_data.hwid = None
                           THEN /\ Goto(p, "login_bind")
                                /\ UNCHANGED bg_tasks
                        ELSE IF u_data.hwid # req[p].hwid
                           THEN /\ Finish(p, LoginFail("HWID mismatch."))
                                /\ UNCHANGED bg_tasks
                        ELSE LoginSuccess(p, app, u_data)
    /\ UNCHANGED <<store, ids, now, req, app_data, seller_ref, apps_it, users_it>>

\* lines 247-261: the HWID is written; update() of a document that is gone raises NotFound
login_bind(p) ==
    /\ pc[p] = "login_bind"
    /\ LET d == user_doc[p].id IN
         IF d \in DOMAIN users
            THEN /\ users' = Put(users, d, UpdateHwid(users[d], req[p].hwid))
                 /\ LoginSuccess(p, app_data[p].data,
                                 [user_doc[p].data EXCEPT !.hwid = req[p].hwid])
            ELSE /\ Finish(p, HttpError(500, "NotFound"))
                 /\ UNCHANGED <<users, bg_tasks>>
    /\ UNCHANGED <<sellers, applications, ids, now, req, locals>>

(* ------------------------ send_discord_webhook ------------------------ *)
\* a task of BackgroundTasks that has not run yet
Queued(task) == "url" \in DOMAIN task

\* lines 71-85: the fields of the embed, as the configuration shows them
EmbedFields(task) ==
    <<<<"User", task.user_data.username>>>>
    \o (IF task.config.show_app THEN <<<<"Application", task.app_name>>>> ELSE << >>)
    \o (IF task.config.show_hwid /\ task.user_data.hwid \notin {None, ""}
           THEN <<<<"HWID", task.user_data.hwid>>>> ELSE << >>)
    \o (IF task.config.show_expiry
           THEN <<<<"Expiry Date", Instant(task.user_data.expires_at)>>>> ELSE << >>)
    \o (IF task.config.show_ip THEN <<<<"IP Address", task.ip_address>>>> ELSE << >>)

\* lines 68-101: what is left of a task that ran: nothing is posted without a url;
\* a failed post is caught and logged
Delivery(task, outcome) ==
    IF task.url = ""
       THEN [fn |-> "send_discord_webhook", outcome |-> "skipped"]
       ELSE [fn |-> "send_discord_webhook", outcome |-> outcome,
             embed |-> EmbedFields(task)]

\* mutant: the exception of a failed post is not caught and replaces the response
send_discord_webhook_raises(p) ==
    /\ pc[p] = "done"
    /\ bg_tasks[p] # << >>
    /\ Queued(Head(bg_tasks[p]))
    /\ \E outcome \in {"sent", "failed"} :
         /\ bg_tasks' = [bg_tasks EXCEPT ![p] = <<Delivery(Head(@), outcome)>>]
         /\ res' = [res EXCEPT ![p] =
                       IF outcome = "failed" THEN HttpError(500, "webhook") ELSE @]
    /\ UNCHANGED <<store, ids, now, pc, req, locals>>

\* lines 67-101: the task runs after the response; the post succeeds or fails
send_discord_webhook(p) ==
    /\ pc[p] = "done"
    /\ bg_tasks[p] # << >>
    /\ Queued(Head(bg_tasks[p]))
    /\ \E outcome \in {"sent", "failed"} :
         bg_tasks' = [bg_tasks EXCEPT ![p] = <<Delivery(Head(@), outcome)>>]
    /\ UNCHANGED <<store, ids, now, pc, req, res, locals>>

(* ----------------------------- delete_app ----------------------------- *)
\* line 166: the application is looked up by appid; none found raises 404 (line 179)
delete_app_find(p) ==
    \E appid \in 0..nextApp :
        /\ Begin(p, [op |-> "delete_app", appid |-> appid])
        /\ LET found == AppsWhereAppid(appid) IN
             IF found = {}
                THEN /\ NoLocals(p)
                     /\ Finish(p, HttpError(404, "App not found"))
                ELSE \E d \in found :
                       /\ Locals(p, Snap(applications, d), NoDoc, None, {}, {})
                       /\ Goto(p, "delete_app_doc")
        /\ UNCHANGED <<store, ids, now>>

\* line 169: a.reference.delete()
delete_app_doc(p) ==
    /\ pc[p] = "delete_app_doc"
    /\ applications' = Remove(applications, app_data[p].id)
    /\ Goto(p, "delete_app_users")
    /\ UNCHANGED <<sellers, users, ids, now, req, locals, bg_tasks>>

\* line 174: the users of the application are queried
delete_app_users(p) ==
    /\ pc[p] = "delete_app_users"
    /\ users_it' = [users_it EXCEPT ![p] = UsersWhereAppid(req[p].appid)]
    /\ IF UsersWhereAppid(req[p].appid) = {}
          THEN Finish(p, Ok)
          ELSE Goto(p, "delete_app_user")
    /\ UNCHANGED <<store, ids, now, req, app_data, user_doc, seller_ref, apps_it, bg_tasks>>

\* lines 175-177: u.reference.delete() for each user of the stream, then success
delete_app_user(p) ==
    /\ pc[p] = "delete_app_user"
    /\ \E d \in users_it[p] :
         /\ users' = Remove(users, d)
         /\ users_it' = [users_it EXCEPT ![p] = @ \ {d}]
         /\ IF users_it[p] = {d} THEN Finish(p, Ok) ELSE Goto(p, "delete_app_user")
    /\ UNCHANGED <<sellers, applications, ids, now, req, app_data, user_doc, seller_ref,
                   apps_it, bg_tasks>>

(* ---------------------------- delete_seller --------------------------- *)
\* line 267: the seller is looked up by ownerid; [0] of an empty result raises IndexError
delete_seller_find(p) ==
    \E ownerid \in 0..nextOwner :
        /\ Begin(p, [op |-> "delete_seller", ownerid |-> ownerid])
        /\ LET found == SellersWhereOwner(ownerid) IN
             IF found = {}
                THEN /\ NoLocals(p)
                     /\ Finish(p, HttpError(500, "IndexError"))
                ELSE \E d \in found :
                       /\ Locals(p, NoDoc, NoDoc, d, {}, {})
                       /\ Goto(p, "delete_seller_doc")
        /\ UNCHANGED <<store, ids, now>>

\* line 267: .reference.delete()
delete_seller_doc(p) ==
    /\ pc[p] = "delete_seller_doc"
    /\ sellers' = Remove(sellers, seller_ref[p])
    /\ Goto(p, "delete_seller_apps")
    /\ UNCHANGED <<applications, users, ids, now, req, locals, bg_tasks>>

\* line 270: the applications of the owner are queried
delete_seller_apps(p) ==
    /\ pc[p] = "delete_seller_apps"
    /\ apps_it' = [apps_it EXCEPT ![p] =
                      {Snap(applications, d) : d \in AppsWhereOwner(req[p].ownerid)}]
    /\ IF AppsWhereOwner(req[p].ownerid) = {}
          THEN Finish(p, Ok)
          ELSE Goto(p, "delete_seller_users")
    /\ UNCHANGED <<store, ids, now, req, app_data, user_doc, seller_ref, users_it, bg_tasks>>

\* lines 271-273: the next application of the stream; its users are queried
delete_seller_users(p) ==
    /\ pc[p] = "delete_seller_users"
    /\ \E a \in apps_it[p] :
         /\ app_data' = [app_data EXCEPT ![p] = a]
         /\ apps_it' = [apps_it EXCEPT ![p] = @ \ {a}]
         /\ users_it' = [users_it EXCEPT ![p] = UsersWhereAppid(a.data.appid)]
         /\ IF UsersWhereAppid(a.data.appid) = {}
               THEN Goto(p, "delete_seller_app")
               ELSE Goto(p, "delete_seller_user")
    /\ UNCHANGED <<store, ids, now, req, user_doc, seller_ref, bg_tasks>>

\* line 274: u.reference.delete() for each user of the stream
delete_seller_user(p) ==
    /\ pc[p] = "delete_seller_user"
    /\ \E d \in users_it[p] :
         /\ users' = Remove(users, d)
         /\ users_it' = [users_it EXCEPT ![p] = @ \ {d}]
         /\ IF users_it[p] = {d}
               THEN Goto(p, "delete_seller_app")
               ELSE Goto(p, "delete_seller_user")
    /\ UNCHANGED <<sellers, applications, ids, now, req, app_data, user_doc, seller_ref,
                   apps_it, bg_tasks>>

\* lines 275-277: a.reference.delete(); after the last application, success
delete_seller_app(p) ==
    /\ pc[p] = "delete_seller_app"
    /\ applications' = Remove(applications, app_data[p].id)
    /\ IF apps_it[p] = {} THEN Finish(p, Ok) ELSE Goto(p, "delete_seller_users")
    /\ UNCHANGED <<sellers, users, ids, now, req, locals, bg_tasks>>

(* ---------------------------- save_webhook ---------------------------- *)
\* WebhookSaveRequest: the four show_* flags are drawn together
WebhookConfigs ==
    {[url |-> url, enabled |-> enabled, show_hwid |-> show, show_ip |-> show,
      show_app |-> show, show_expiry |-> show]
     : url \in {"", "https://hook"}, enabled \in BOOLEAN, show \in BOOLEAN}

\* line 283: the application is looked up by appid; none found raises 404 (line 299)
save_webhook_find(p) ==
    \E appid \in 0..nextApp, config \in WebhookConfigs :
        /\ Begin(p, [op |-> "save_webhook", appid |-> appid, config |-> config])
        /\ LET found == AppsWhereAppid(appid) IN
             IF found = {}
                THEN /\ NoLocals(p)
                     /\ Finish(p, HttpError(404, "App not found"))
                ELSE \E d \in found :
                       /\ Locals(p, Snap(applications, d), NoDoc, None, {}, {})
                       /\ Goto(p, "save_webhook_update")
        /\ UNCHANGED <<store, ids, now>>

\* lines 286-298: a.reference.update(); update() of a document that is gone raises NotFound
save_webhook_update(p) ==
    /\ pc[p] = "save_webhook_update"
    /\ LET d == app_data[p].id IN
         IF d \in DOMAIN applications
            THEN /\ applications' = Put(applications, d,
                        [applications[d] EXCEPT !.webhook_config = req[p].config])
                 /\ Finish(p, Ok)
            ELSE /\ Finish(p, HttpError(500, "NotFound"))
                 /\ UNCHANGED applications
    /\ UNCHANGED <<sellers, users, ids, now, req, locals, bg_tasks>>

(* ------------------------------- extend ------------------------------- *)
\* the latest expiry an extension may reach in the model
MaxExpiry == MaxClock + 2

ExtendDays == {-1, 0, 1}

Max(a, b) == IF a >= b THEN a ELSE b

\* mutant: the extension always stacks on the stored expiry, also when it has passed
Extended_fromExpiry(expires_at, days, utcnow) ==
    IF Instant(expires_at) = LIFETIME THEN expires_at
    ELSE isoformat(Instant(expires_at) + days)

\* expiry extension: base = max(now_utc, current_expires_at), new_expiry = base + days
Extended(expires_at, days, utcnow) ==
    IF Instant(expires_at) = LIFETIME THEN expires_at
    ELSE isoformat(Max(utcnow, Instant(expires_at)) + days)

ExtendOk(expires_at) == [kind |-> "json", status |-> "success", expires_at |-> expires_at]

\* expiry extension of a credential by id; negative days are rejected at the boundary
extend_user(p) ==
    \E user_id \in 0..nextUser, days \in ExtendDays :
        /\ Begin(p, [op |-> "extend_user", user_id |-> user_id, days |-> days])
        /\ NoLocals(p)
        /\ IF days < 0
              THEN /\ Finish(p, HttpError(422, "Invalid days"))
                   /\ UNCHANGED users
           ELSE IF user_id \notin DOMAIN users
              THEN /\ Finish(p, HttpError(404, "NotFound"))
                   /\ UNCHANGED users
           ELSE LET new == Extended(users[user_id].expires_at, days, now) IN
                  /\ Instant(new) = LIFETIME \/ Instant(new) <= MaxExpiry
                  /\ users' = Put(users, user_id, [users[user_id] EXCEPT !.expires_at = new])
                  /\ Finish(p, ExtendOk(new))
        /\ UNCHANGED <<sellers, applications, ids, now>>

(* --------------------------- specifications --------------------------- *)
\* every handler, interleaved at its store calls
Next ==
    \/ Tick
    \/ \E p \in Procs :
         \/ sync_get(p) \/ sync_set(p)
         \/ create_app(p)
         \/ list_apps(p) \/ list_users(p)
         \/ create_check(p) \/ create_add(p)
         \/ delete_user(p)
         \/ login_find_app(p) \/ login_find_user(p) \/ login_bind(p)
         \/ send_discord_webhook(p)
         \/ delete_app_find(p) \/ delete_app_doc(p) \/ delete_app_users(p)
         \/ delete_app_user(p)
         \/ delete_seller_find(p) \/ delete_seller_doc(p) \/ delete_seller_apps(p)
         \/ delete_seller_users(p) \/ delete_seller_user(p) \/ delete_seller_app(p)
         \/ save_webhook_find(p) \/ save_webhook_update(p)
         \/ extend_user(p)

Spec == Init /\ [][Next]_vars

\* the store after sync_seller and create_app: one seller, one application, no credential
InitApp ==
    /\ sellers = [d \in {"uid1"} |-> [email |-> "a@x", ownerid |-> 1]]
    /\ applications = [d \in {1} |-> [appid |-> 1, app_secret |-> 1, name |-> "App",
                                       ownerid |-> 1, webhook_config |-> NoConfig]]
    /\ users = << >>
    /\ now = 0
    /\ nextOwner = 1
    /\ nextApp = 1
    /\ nextUser = 0
    /\ pc = [p \in Procs |-> "idle"]
    /\ req = [p \in Procs |-> NoReq]
    /\ res = [p \in Procs |-> NoRes]
    /\ app_data = [p \in Procs |-> NoDoc]
    /\ user_doc = [p \in Procs |-> NoDoc]
    /\ seller_ref = [p \in Procs |-> None]
    /\ apps_it = [p \in Procs |-> {}]
    /\ users_it = [p \in Procs |-> {}]
    /\ bg_tasks = [p \in Procs |-> << >>]

\* the credential lifecycle served by one worker, one request at a time
CredStep(p) ==
    \/ create_check(p) \/ create_add(p)
    \/ login_find_app(p) \/ login_find_user(p) \/ login_bind(p)
    \/ delete_user(p)
    \/ extend_user(p)

CredNext == Tick \/ CredStep("p1")

CredSpec == InitApp /\ [][CredNext]_vars

\* the store after sync_seller, create_app and create_end_user(days = 1) at time 0:
\* one seller, one application of that seller, one credential not yet bound
InitLive ==
    /\ sellers = [d \in {"uid1"} |-> [email |-> "a@x", ownerid |-> 1]]
    /\ applications = [d \in {1} |-> [appid |-> 1, app_secret |-> 1, name |-> "App",
                                       ownerid |-> 1, webhook_config |-> NoConfig]]
    /\ users = [d \in {1} |-> [appid |-> 1, username |-> "alice", password |-> "pw1",
                                expires_at |-> isoformat(1), hwid |-> None]]
    /\ now = 0
    /\ nextOwner = 1
    /\ nextApp = 1
    /\ nextUser = 1
    /\ pc = [p \in Procs |-> "idle"]
    /\ req = [p \in Procs |-> NoReq]
    /\ res = [p \in Procs |-> NoRes]
    /\ app_data = [p \in Procs |-> NoDoc]
    /\ user_doc = [p \in Procs |-> NoDoc]
    /\ seller_ref = [p \in Procs |-> None]
    /\ apps_it = [p \in Procs |-> {}]
    /\ users_it = [p \in Procs |-> {}]
    /\ bg_tasks = [p \in Procs |-> << >>]

\* logins, creations and deletions of credentials served concurrently
RaceStep(p) ==
    \/ login_find_app(p) \/ login_find_user(p) \/ login_bind(p)
    \/ create_check(p) \/ create_add(p)
    \/ delete_user(p)

RaceNext == \E p \in Procs : RaceStep(p)

RaceSpec == InitLive /\ [][RaceNext]_vars

\* creations, deletions and listings of credentials served concurrently
CreateStep(p) ==
    \/ create_check(p) \/ create_add(p)
    \/ delete_user(p)
    \/ list_users(p)

CreateNext == \E p \in Procs : CreateStep(p)

CreateSpec == InitApp /\ [][CreateNext]_vars

\* delete_app served concurrently with creations, logins and listings of credentials
DeleteAppStep(p) ==
    \/ delete_app_find(p) \/ delete_app_doc(p) \/ delete_app_users(p)
    \/ delete_app_user(p)
    \/ create_check(p) \/ create_add(p)
    \/ login_find_app(p) \/ login_find_user(p) \/ login_bind(p)
    \/ list_users(p)

DeleteAppNext == \E p \in Procs : DeleteAppStep(p)

DeleteAppSpec == InitLive /\ [][DeleteAppNext]_vars

\* delete_seller served concurrently with logins and listings
DeleteSellerStep(p) ==
    \/ delete_seller_find(p) \/ delete_seller_doc(p) \/ delete_seller_apps(p)
    \/ delete_seller_users(p) \/ delete_seller_user(p) \/ delete_seller_app(p)
    \/ login_find_app(p) \/ login_find_user(p) \/ login_bind(p)
    \/ list_apps(p) \/ list_users(p)

DeleteSellerNext == \E p \in Procs : DeleteSellerStep(p)

DeleteSellerSpec == InitLive /\ [][DeleteSellerNext]_vars

\* the store after sync_seller, two create_app and one create_end_user(days = 1) per
\* application at time 0: the same username and password under both applications
InitTwoApps ==
    /\ sellers = [d \in {"uid1"} |-> [email |-> "a@x", ownerid |-> 1]]
    /\ applications = [d \in {1, 2} |-> [appid |-> d, app_secret |-> d, name |-> "App",
                                          ownerid |-> 1, webhook_config |-> NoConfig]]
    /\ users = [d \in {1, 2} |-> [appid |-> d, username |-> "alice", password |-> "pw1",
                                   expires_at |-> isoformat(1), hwid |-> None]]
    /\ now = 0
    /\ nextOwner = 1
    /\ nextApp = 2
    /\ nextUser = 2
    /\ pc = [p \in Procs |-> "idle"]
    /\ req = [p \in Procs |-> NoReq]
    /\ res = [p \in Procs |-> NoRes]
    /\ app_data = [p \in Procs |-> NoDoc]
    /\ user_doc = [p \in Procs |-> NoDoc]
    /\ seller_ref = [p \in Procs |-> None]
    /\ apps_it = [p \in Procs |-> {}]
    /\ users_it = [p \in Procs |-> {}]
    /\ bg_tasks = [p \in Procs |-> << >>]

\* sellers signing in for the first time and creating their applications, two workers
SyncStep(p) ==
    \/ sync_get(p) \/ sync_set(p)
    \/ create_app(p) \/ list_apps(p)

SyncNext == \E p \in Procs : SyncStep(p)

SyncSpec == Init /\ [][SyncNext]_vars

\* logins of two workers against two applications, with credentials being deleted
LoginStep(p) ==
    \/ login_find_app(p) \/ login_find_user(p) \/ login_bind(p)
    \/ delete_user(p)

LoginNext == \E p \in Procs : LoginStep(p)

LoginSpec == InitTwoApps /\ [][LoginNext]_vars

\* logins and their notifications under a changing webhook configuration, one worker
WebhookStep(p) ==
    \/ save_webhook_find(p) \/ save_webhook_update(p)
    \/ login_find_app(p) \/ login_find_user(p) \/ login_bind(p)
    \/ send_discord_webhook(p)

WebhookNext == WebhookStep("p1")

WebhookSpec == InitLive /\ [][WebhookNext]_vars

(* ------------------------------- claims ------------------------------- *)
\* an expiry that lies before utcnow and is not the lifetime sentinel
Expired(expires_at, utcnow) ==
    Instant(expires_at) # LIFETIME /\ Instant(expires_at) < utcnow

IsLifetime(expires_at) == expires_at = isoformat(LIFETIME)

\* the last request of worker p was a user_login that has returned
LoginDone(p) == pc[p] = "done" /\ req[p].op = "user_login"

LoginSucceeded(p) == res[p].kind = "json" /\ res[p].success

\* this step is the arrival of a request for op at worker p
Arrives(p, op) ==
    /\ Idle(p)
    /\ req'[p].op = op
    /\ <<pc'[p], req'[p], res'[p]>> # <<pc[p], req[p], res[p]>>

\* this step is the return of a user_login of worker p
LoginReturns(p) == pc[p] \in {"login_find_user", "login_bind"} /\ pc'[p] = "done"

\* this step returns a user_login that resolved a credential and presented its password
LoginReturnsOn(p) ==
    /\ LoginReturns(p)
    /\ user_doc'[p] # NoDoc
    /\ user_doc'[p].data.password = req[p].password

\* a stored HWID that is not null stays as it is while the credential exists
HwidKept ==
    \A d \in DOMAIN users :
        (users[d].hwid # None /\ d \in DOMAIN users') => users'[d].hwid = users[d].hwid

\* worker p read the credential with hwid null, presented its password, and has returned
FirstLogin(p) ==
    /\ LoginDone(p)
    /\ user_doc[p] # NoDoc
    /\ user_doc[p].data.hwid = None
    /\ user_doc[p].data.password = req[p].password
    /\ user_doc[p].id \in DOMAIN users

\* C1: of two concurrent first logins on the same credential with the correct password
\* and different HWIDs, exactly one succeeds and binds its HWID, and the other
\* returns the HWID mismatch failure.
C1_ExactlyOneBinds ==
    \A p, q \in Procs :
        ( /\ p # q
          /\ FirstLogin(p) /\ FirstLogin(q)
          /\ user_doc[p].id = user_doc[q].id
          /\ req[p].hwid # req[q].hwid )
        => \E w, l \in {p, q} :
              /\ w # l
              /\ LoginSucceeded(w)
              /\ users[user_doc[w].id].hwid = req[w].hwid
              /\ res[l] = LoginFail("HWID mismatch.")

\* C2: once the stored hwid of a credential is not null it keeps that value in every
\* later state until the credential is deleted, under concurrent requests.
C2_HwidBindsOnce == [][HwidKept]_vars

\* C3: the users store holds at most one credential per (appid, username), also
\* under concurrent create_end_user requests.
C3_UniqueUsername ==
    \A d1, d2 \in DOMAIN users :
        (users[d1].appid = users[d2].appid /\ users[d1].username = users[d2].username)
        => d1 = d2

\* C4: a user_login on a credential whose expires_at is before the current time and
\* is not the lifetime sentinel never returns success.
C4_NoLoginWhenExpired ==
    [][\A p \in Procs :
          (LoginReturnsOn(p) /\ Expired(user_doc'[p].data.expires_at, now))
          => ~(res'[p].kind = "json" /\ res'[p].success)]_vars

\* C5: with requests served one at a time, a login with the correct password on an
\* unexpired credential with hwid null succeeds and stores the supplied HWID; a bound
\* HWID stays; a login with another HWID fails with HWID mismatch and a login with
\* the bound HWID succeeds, both leaving the store as it was.
C5_SequentialBinding ==
    [][/\ HwidKept
       /\ \A p \in Procs :
            LoginReturnsOn(p) =>
              LET u == user_doc'[p]
                  h == req[p].hwid
              IN /\ (u.data.hwid = None /\ ~Expired(u.data.expires_at, now))
                      => /\ res'[p] = LoginOk(u.data.expires_at)
                         /\ u.id \in DOMAIN users'
                         /\ users'[u.id].hwid = h
                 /\ (u.data.hwid \notin {None, h})
                      => /\ res'[p] = LoginFail("HWID mismatch.")
                         /\ users' = users
                 /\ (u.data.hwid = h)
                      => /\ res'[p] = LoginOk(u.data.expires_at)
                         /\ users' = users]_vars

\* C5 witness: a login on a credential bound to one HWID was refused for another HWID
C5_Witness ==
    \E p \in Procs :
        /\ LoginDone(p)
        /\ res[p] = LoginFail("HWID mismatch.")
        /\ user_doc[p].id \in DOMAIN users
        /\ users[user_doc[p].id].hwid \in HWIDs \ {req[p].hwid}

\* C6: a create_end_user for an (appid, username) that already has a credential fails
\* with the duplicate-username error and leaves the users store unchanged.
C6_DuplicateRejected ==
    [][\A p \in Procs :
          ( /\ Arrives(p, "create_end_user")
            /\ \E d \in DOMAIN users : /\ users[d].appid = req'[p].appid
                                       /\ users[d].username = req'[p].username )
          => /\ res'[p] = HttpError(400, "Username exists")
             /\ pc'[p] = "done"
             /\ users' = users]_vars

\* C6 witness: a creation was refused as a duplicate while the credential is stored
C6_Witness ==
    \E p \in Procs :
        /\ pc[p] = "done" /\ req[p].op = "create_end_user"
        /\ res[p] = HttpError(400, "Username exists")
        /\ \E d \in DOMAIN users : /\ users[d].appid = req[p].appid
                                   /\ users[d].username = req[p].username

\* C7 as stated: every credential created with days = 0 gets the lifetime sentinel.
C7_DaysZeroIsLifetime ==
    [][\A p \in Procs :
          (pc[p] = "create_add" /\ pc'[p] = "done" /\ req[p].days = 0)
          => IsLifetime(users'[nextUser'].expires_at)]_vars

\* C7 amended: a credential created with days = 0 and no explicit expiry text gets the
\* lifetime sentinel, and a login on a lifetime credential with the correct password
\* and a matching or unbound HWID succeeds whatever the clock shows.
C7_LifetimeNeverExpires ==
    [][\A p \in Procs :
          /\ ( /\ pc[p] = "create_add" /\ pc'[p] = "done"
               /\ req[p].days = 0 /\ ~Truthy(req[p].expire_str) )
               => IsLifetime(users'[nextUser'].expires_at)
          /\ ( /\ LoginReturnsOn(p)
               /\ IsLifetime(user_doc'[p].data.expires_at)
               /\ user_doc'[p].data.hwid \in {None, req[p].hwid} )
               => res'[p] = LoginOk(isoformat(LIFETIME))]_vars

\* C7 witness: after the clock advanced, a login on a credential created with the
\* lifetime sentinel has succeeded
C7_Witness ==
    \E p \in Procs :
        /\ LoginDone(p)
        /\ now = MaxClock
        /\ res[p] = LoginOk(isoformat(LIFETIME))

\* the cascade of delete_app of worker p is past the deletion of the application record
AppCascading(p) ==
    req[p].op = "delete_app" /\ pc[p] \in {"delete_app_users", "delete_app_user"}

\* this step is the successful return of delete_app of worker p
AppCascadeReturns(p) ==
    /\ req[p].op = "delete_app"
    /\ pc[p] \in {"delete_app_users", "delete_app_user"}
    /\ pc'[p] = "done" /\ res'[p] = Ok

\* C8: from the deletion of the application record by delete_app(A) on, and when
\* delete_app(A) returns success, the users store holds no credential with appid A.
C8_DeleteAppAtomic ==
    [][\A p \in Procs :
          (AppCascading(p)' \/ AppCascadeReturns(p))
          => UsersWhereAppid(req[p].appid)' = {}]_vars

\* the cascade of delete_seller of worker p is past the deletion of the seller record
SellerCascading(p) ==
    /\ req[p].op = "delete_seller"
    /\ pc[p] \in {"delete_seller_apps", "delete_seller_users", "delete_seller_user",
                  "delete_seller_app"}

\* this step is the successful return of delete_seller of worker p
SellerCascadeReturns(p) ==
    /\ req[p].op = "delete_seller"
    /\ pc[p] \in {"delete_seller_apps", "delete_seller_app"}
    /\ pc'[p] = "done" /\ res'[p] = Ok

\* the application snapshots the cascade of worker p holds
CascadeApps(p) == apps_it[p] \cup ({app_data[p]} \ {NoDoc})

\* C9: from the deletion of the seller record by delete_seller(owner) on, and when it
\* returns, no application of the owner and no credential of such an application exists.
C9_DeleteSellerAtomic ==
    [][\A p \in Procs :
          (SellerCascading(p)' \/ SellerCascadeReturns(p))
          => /\ AppsWhereOwner(req[p].ownerid)' = {}
             /\ \A a \in CascadeApps(p)' : UsersWhereAppid(a.data.appid)' = {}]_vars

C11_ExtendFromMax ==
    [][\A p \in Procs :
          (Arrives(p, "extend_user") /\ req'[p].days >= 0) =>
            LET id   == req'[p].user_id
                days == req'[p].days
            IN IF id \notin DOMAIN users
                  THEN res'[p] = HttpError(404, "NotFound") /\ users' = users
               ELSE IF IsLifetime(users[id].expires_at)
                  THEN TRUE
               ELSE LET old == Instant(users[id].expires_at)
                        new == IF old < now THEN now + days ELSE old + days
                    IN /\ res'[p] = ExtendOk(isoformat(new))
                       /\ users' = [users EXCEPT ![id].expires_at = isoformat(new)]]_vars

\* C11 witness: an extension by a positive number of days was stacked on an expiry
\* that had not passed
C11_Witness ==
    \E p \in Procs :
        /\ pc[p] = "done" /\ req[p].op = "extend_user"
        /\ res[p].kind = "json"
        /\ req[p].days > 0
        /\ Instant(res[p].expires_at) # LIFETIME
        /\ Instant(res[p].expires_at) > now + req[p].days
        /\ users[req[p].user_id].expires_at = res[p].expires_at

\* this step is the return of a create_end_user of worker p that added its document
CreateReturns(p) == pc[p] = "create_add" /\ pc'[p] = "done"

\* C14: the new credential has the instant of the explicit expiry text when one is
\* supplied, whatever days is; else the lifetime sentinel when days = 0; else
\* now + days; and its hwid is null.
C14_ExpiryPrecedence ==
    [][\A p \in Procs :
          CreateReturns(p) =>
            LET r == req[p]
                e == IF Truthy(r.expire_str) THEN r.expire_str[2]
                     ELSE IF r.days = 0 THEN LIFETIME
                     ELSE now + r.days
            IN /\ DOMAIN users' = DOMAIN users \cup {nextUser'}
               /\ nextUser' \notin DOMAIN users
               /\ users'[nextUser'] =
                     [appid |-> r.appid, username |-> r.username, password |-> r.password,
                      expires_at |-> <<"iso", e>>, hwid |-> None]]_vars

\* C14 witness: a credential was created with an explicit expiry text and days = 0,
\* and holds the instant of the text
C14_Witness ==
    \E p \in Procs :
        /\ pc[p] = "done" /\ req[p].op = "create_end_user" /\ res[p] = Ok
        /\ Truthy(req[p].expire_str) /\ req[p].days = 0
        /\ nextUser \in DOMAIN users
        /\ users[nextUser].expires_at = <<"iso", req[p].expire_str[2]>>
        /\ users[nextUser].hwid = None

\* C15: delete_user with an id that is not in the users store fails with NotFound and
\* leaves the store unchanged.
C15_DeleteUnknownFails ==
    [][\A p \in Procs :
          (Arrives(p, "delete_user") /\ req'[p].user_id \notin DOMAIN users)
          => /\ res'[p] = HttpError(404, "NotFound")
             /\ users' = users]_vars

\* C16: a user_login that returns a failure leaves the users store unchanged, and a
\* login with a wrong password or on an expired credential never binds the HWID of a
\* credential whose hwid is null.
C16_FailedLoginWritesNothing ==
    [][\A p \in Procs :
          LoginReturns(p) =>
            /\ ~(res'[p].kind = "json" /\ res'[p].success) => users' = users
            /\ ( /\ user_doc'[p] # NoDoc
                 /\ user_doc'[p].data.hwid = None
                 /\ \/ user_doc'[p].data.password # req[p].password
                    \/ Expired(user_doc'[p].data.expires_at, now) )
               => users' = users]_vars

\* the webhook configuration stored for the application worker p resolved
StoredConfig(p) == applications[app_data[p].id].webhook_config

\* this step hands a task to the BackgroundTasks of worker p
Dispatches(p) == Len(bg_tasks'[p]) > Len(bg_tasks[p])

\* C12: a notification is dispatched only by a user_login that returns success, and
\* only when the webhook_config of the application exists and has enabled = true;
\* a login under an absent or disabled configuration dispatches nothing.
C12_NotifyOnlyWhenEnabled ==
    [][\A p \in Procs :
          /\ Dispatches(p) =>
               /\ LoginReturns(p)
               /\ res'[p].kind = "json" /\ res'[p].success
               /\ StoredConfig(p) # NoConfig
               /\ StoredConfig(p).enabled
          /\ ( /\ LoginReturns(p)
               /\ app_data[p].id \in DOMAIN applications
               /\ (StoredConfig(p) = NoConfig \/ ~StoredConfig(p).enabled) )
             => bg_tasks'[p] = << >>]_vars

\* C12 witness: a successful login has dispatched its notification
C12_Witness ==
    \E p \in Procs :
        /\ LoginDone(p) /\ LoginSucceeded(p)
        /\ bg_tasks[p] # << >>
        /\ Queued(Head(bg_tasks[p]))

\* this step runs the queued notification task of worker p
TaskRuns(p) ==
    /\ pc[p] = "done"
    /\ bg_tasks[p] # << >> /\ Queued(Head(bg_tasks[p]))
    /\ bg_tasks'[p] # << >> /\ ~Queued(Head(bg_tasks'[p]))

\* C13: whether the notification is delivered, fails or is still pending, the login
\* it belongs to has returned success, and running the task changes neither the
\* response nor the store.
C13_NotifierAbsorbed ==
    [][\A p \in Procs :
          /\ bg_tasks'[p] # << >> =>
               /\ pc'[p] = "done" /\ req'[p].op = "user_login"
               /\ res'[p] = LoginOk(users'[user_doc'[p].id].expires_at)
          /\ TaskRuns(p) => (res' = res /\ store' = store /\ pc' = pc)]_vars

\* C13 witness: the delivery of a notification failed and the login stays successful
C13_Witness ==
    \E p \in Procs :
        /\ LoginDone(p) /\ LoginSucceeded(p)
        /\ bg_tasks[p] # << >>
        /\ ~Queued(Head(bg_tasks[p]))
        /\ Head(bg_tasks[p]).outcome = "failed"

\* the login of worker p resolved its application and found no credential there
UnknownUsername(p) ==
    /\ LoginDone(p)
    /\ app_data[p] # NoDoc
    /\ user_doc[p] = NoDoc

\* the login of worker p found the credential and its password differs
KnownUsernameWrongPassword(p) ==
    /\ LoginDone(p)
    /\ app_data[p] # NoDoc
    /\ user_doc[p] # NoDoc
    /\ user_doc[p].data.password # req[p].password

\* C17: for a valid application, a login with a username unknown to the application
\* and a login with a known username and a wrong password return the identical
\* response: a failure with the same message.
C17_SameFailureResponse ==
    \A p, q \in Procs :
        (UnknownUsername(p) /\ KnownUsernameWrongPassword(q)) =>
            /\ res[p] = res[q]
            /\ res[p].kind = "json" /\ ~res[p].success

\* C17 witness: both kinds of failed login have returned, for the same username
C17_Witness ==
    \E p, q \in Procs :
        /\ UnknownUsername(p) /\ KnownUsernameWrongPassword(q)
        /\ req[p].username = req[q].username

\* a step of the user_login of worker p after its application was resolved
LoginStepOf(p) ==
    /\ pc[p] \in {"login_find_user", "login_bind"}
    /\ pc'[p] # pc[p]

\* C18: a login reads, accepts and binds only a credential whose appid is the appid
\* of the application matched by (ownerid, app_secret); the credentials of every
\* other application are left as they were.
C18_TenantIsolation ==
    [][\A p \in Procs : LoginStepOf(p) =>
          LET app == app_data[p].data IN
            /\ app.ownerid = req[p].ownerid /\ app.app_secret = req[p].app_secret
            /\ user_doc'[p] # NoDoc => user_doc'[p].data.appid = app.appid
            /\ (res'[p] # NoRes /\ res'[p].kind = "json" /\ res'[p].success) =>
                 /\ user_doc'[p] # NoDoc
                 /\ user_doc'[p].data.username = req[p].username
            /\ DOMAIN users' = DOMAIN users
            /\ \A d \in DOMAIN users :
                 users'[d] # users[d] =>
                     /\ users[d].appid = app.appid
                     /\ d = user_doc'[p].id]_vars

\* C18 witness: a login bound the credential of its application while the credential
\* with the same username and password under the other application is still unbound
C18_Witness ==
    \E p \in Procs : \E d, e \in DOMAIN users :
        /\ LoginDone(p) /\ LoginSucceeded(p)
        /\ user_doc[p].id = d
        /\ users[d].hwid = req[p].hwid
        /\ users[e].appid # users[d].appid
        /\ users[e].username = users[d].username
        /\ users[e].password = users[d].password
        /\ users[e].hwid = None

\* the sync_seller of worker p has returned an ownerid
SyncDone(p) ==
    /\ pc[p] = "done" /\ req[p].op = "sync_seller"
    /\ res[p].kind = "json"

\* C19: every sync_seller call for the same firebase_uid returns the same ownerid,
\* and that ownerid is the one stored in the seller record.
C19_SyncStable ==
    /\ \A p \in Procs :
         SyncDone(p) =>
             /\ req[p].firebase_uid \in DOMAIN sellers
             /\ res[p].ownerid = sellers[req[p].firebase_uid].ownerid
    /\ \A p, q \in Procs :
         (SyncDone(p) /\ SyncDone(q) /\ req[p].firebase_uid = req[q].firebase_uid) =>
             res[p].ownerid = res[q].ownerid

====
